---- MODULE Spec2Model ----
(***************************************************************************)
(* A model of src/server.py: the raw ASGI application mcp_asgi_app (the    *)
(* SSE handshake on GET, the buffered JSON-RPC exchange on POST), the tool *)
(* dispatcher call_tool and the tool table list_tools.                     *)
(*                                                                         *)
(* Each connection is one invocation of mcp_asgi_app.  A step of the model *)
(* is the code that runs between two awaits of the coroutine: asyncio runs *)
(* that code without interleaving.  The environment (the ASGI server, the  *)
(* HTTP client, the directory service) decides what receive() returns,     *)
(* whether send() raises and what the directory call does.                 *)
(*                                                                         *)
(* Python values are records tagged by the field a ("null", "str", "list", *)
(* "obj"); a dict is an "obj" whose keys map to a value or to MissingV.    *)
(* Text (str, bytes) is a sequence of pieces, so that an f-string is a     *)
(* concatenation and a substring test is a search for a piece.  The log    *)
(* calls are left out: they change no state the handler reads.             *)
(***************************************************************************)
EXTENDS Integers, Sequences, FiniteSets, TLC

VARIABLES conn, client

vars == <<conn, client>>

\* The most body chunks (http.request messages) one POST is delivered in.
MaxChunks == 3

-----------------------------------------------------------------------------
(* Python and JSON values *)

None == [a |-> "null"]

MissingV == [a |-> "missing"]

Unbound == [a |-> "unbound"]

JStr(s) == [a |-> "str", s |-> s]

JList == [a |-> "list"]

JObj(o) == [a |-> "obj", o |-> o]

IsDict(v) == v.a = "obj"

TypeName(v) == CASE v.a = "null" -> "NoneType"
                 [] v.a = "list" -> "list"
                 [] v.a = "str" -> "str"
                 [] OTHER -> "dict"

\* str(v) inside an f-string.
Str(v) == IF v.a = "str" THEN v.s ELSE IF v.a = "null" THEN "None" ELSE "[]"

Contains(text, piece) == \E i \in 1..Len(text) : text[i] = piece

RECURSIVE Join(_)
Join(parts) == IF Len(parts) = 0 THEN <<>> ELSE Head(parts) \o Join(Tail(parts))

Digit(d) == <<"0", "1", "2", "3", "4", "5", "6", "7", "8", "9">>[d + 1]

RECURSIVE DecStr(_)
DecStr(n) == IF n < 10 THEN <<Digit(n)>> ELSE DecStr(n \div 10) \o <<Digit(n % 10)>>

-----------------------------------------------------------------------------
(* Exceptions: a type and the text str(e) gives *)

NoExc == [type |-> "", msg |-> <<>>]

Exc(type, msg) == [type |-> type, msg |-> msg]

KeyError(k) == Exc("KeyError", <<"'", k, "'">>)

AttributeError(v, attr) ==
    Exc("AttributeError", <<"'", TypeName(v), "' object has no attribute '", attr, "'">>)

SubscriptTypeError(v) ==
    Exc("TypeError",
        IF v.a = "null" THEN <<"'NoneType' object is not subscriptable">>
        ELSE <<TypeName(v), " indices must be integers">>)

\* d[k]: the exception it raises, NoExc when it returns.
SubscriptExc(d, k) ==
    IF IsDict(d) THEN (IF d.o[k] = MissingV THEN KeyError(k) ELSE NoExc)
    ELSE SubscriptTypeError(d)

Subscript(d, k) == d.o[k]

\* d.get(k, default): the exception it raises, NoExc when it returns.
GetExc(d) == IF IsDict(d) THEN NoExc ELSE AttributeError(d, "get")

Get(d, k, default) == IF d.o[k] = MissingV THEN default ELSE d.o[k]

-----------------------------------------------------------------------------
(* JSON text: a sequence of tokens *)

Tok(k, v) == [k |-> k, v |-> v]

LBrace == Tok("{", None)

RBrace == Tok("}", None)

LBracket == Tok("[", None)

RBracket == Tok("]", None)

NullTok == Tok("null", None)

BadByte == Tok("\\xff", None)

Member(k, v) == IF v = MissingV THEN <<>> ELSE <<Tok(k, v)>>

EnvelopeKeys == <<"id", "method", "params">>

EmptyEnvelope == [id |-> MissingV, method |-> MissingV, params |-> MissingV]

RECURSIVE parse_members(_, _)
parse_members(toks, d) ==
    IF Len(toks) = 0 THEN d
    ELSE parse_members(Tail(toks), [d EXCEPT ![Head(toks).k] = Head(toks).v])

JSONDecodeError == Exc("JSONDecodeError", <<"Expecting value">>)

UnicodeDecodeError == Exc("UnicodeDecodeError", <<"'utf-8' codec can't decode byte 0xff">>)

\* json.loads(full_body): [exc, val].
json_loads(s) ==
    LET n == Len(s)
        ok(v) == [exc |-> NoExc, val |-> v]
        bad(e) == [exc |-> e, val |-> None]
    IN  IF \E i \in 1..n : s[i].k = BadByte.k THEN bad(UnicodeDecodeError)
        ELSE IF n = 0 THEN bad(JSONDecodeError)
        ELSE IF n = 1 /\ s[1].k = NullTok.k THEN ok(None)
        ELSE IF n = 2 /\ s[1].k = LBracket.k /\ s[2].k = RBracket.k THEN ok(JList)
        ELSE IF /\ n >= 2
                /\ s[1].k = LBrace.k
                /\ s[n].k = RBrace.k
                /\ \A i \in 2..(n - 1) : \E j \in 1..Len(EnvelopeKeys) : s[i].k = EnvelopeKeys[j]
             THEN ok(JObj(parse_members(SubSeq(s, 2, n - 1), EmptyEnvelope)))
        ELSE bad(JSONDecodeError)

\* json.dumps(response).encode(): the members in insertion order.
json_dumps(response) ==
    <<LBrace>> \o Member("jsonrpc", response.jsonrpc) \o Member("id", response.id)
       \o Member("result", response.result) \o Member("error", response.error)
       \o <<RBrace>>

-----------------------------------------------------------------------------
(* list_tools: the five tool descriptors *)

Schema(properties, required) ==
    [type |-> "object", properties |-> properties, required |-> required]

SchemaNoRequired(properties) == [type |-> "object", properties |-> properties]

CreateUserTool ==
    [name |-> "create_user",
     description |-> "Create a new user in Azure AD",
     inputSchema |-> Schema(<<"userPrincipalName", "displayName", "mailNickname", "password">>,
                            <<"userPrincipalName", "displayName", "mailNickname", "password">>)]

ReadUserTool ==
    [name |-> "read_user",
     description |-> "Get user information from Azure AD",
     inputSchema |-> Schema(<<"userId">>, <<"userId">>)]

UpdateUserTool ==
    [name |-> "update_user",
     description |-> "Update an existing user in Azure AD",
     inputSchema |-> Schema(<<"userId", "displayName", "jobTitle", "department">>,
                            <<"userId">>)]

DeleteUserTool ==
    [name |-> "delete_user",
     description |-> "Delete a user from Azure AD",
     inputSchema |-> Schema(<<"userId">>, <<"userId">>)]

ListUsersTool ==
    [name |-> "list_users",
     description |-> "List users in the Azure AD tenant",
     inputSchema |-> SchemaNoRequired(<<"top">>)]

\* Mutant: the tool table of an earlier revision, without list_users.
list_tools_four == <<CreateUserTool, ReadUserTool, UpdateUserTool, DeleteUserTool>>

list_tools == <<CreateUserTool, ReadUserTool, UpdateUserTool, DeleteUserTool, ListUsersTool>>

-----------------------------------------------------------------------------
(* call_tool: the branch taken up to the directory call, the call's result, *)
(* and the except block that turns an exception into text                   *)

ArgKeys == {"userPrincipalName", "displayName", "mailNickname", "password",
            "userId", "jobTitle", "department", "top"}

NoArgs == [k \in ArgKeys |-> MissingV]

ToolNames == {"create_user", "read_user", "update_user", "delete_user", "list_users"}

\* The keys of arguments a branch subscripts before it calls the directory.
SubscriptedKeys(name) ==
    CASE name = "create_user" ->
             <<"userPrincipalName", "displayName", "mailNickname", "password">>
      [] name \in {"read_user", "update_user", "delete_user"} -> <<"userId">>
      [] OTHER -> <<>>

RECURSIVE FirstSubscriptExc(_, _)
FirstSubscriptExc(arguments, keys) ==
    IF Len(keys) = 0 THEN NoExc
    ELSE IF SubscriptExc(arguments, Head(keys)) # NoExc
         THEN SubscriptExc(arguments, Head(keys))
         ELSE FirstSubscriptExc(arguments, Tail(keys))

\* "displayName" in arguments: the exception it raises, NoExc when it returns.
InExc(arguments) ==
    IF arguments.a = "null"
    THEN Exc("TypeError", <<"argument of type 'NoneType' is not iterable">>)
    ELSE NoExc

\* The directory operation a branch awaits.
DirectoryOp(name) ==
    CASE name = "create_user" -> "users.post"
      [] name = "read_user" -> "users.by_user_id.get"
      [] name = "update_user" -> "users.by_user_id.patch"
      [] name = "delete_user" -> "users.by_user_id.delete"
      [] OTHER -> "users.get"

NotFoundText(userId) ==
    <<"Error: User '", userId,
      "' not found in Azure AD. Please verify the user ID or userPrincipalName.">>

BadRequestText(error_msg) ==
    <<"Error: Invalid request. Please check the parameters: ">> \o error_msg

PermissionDeniedText ==
    <<"Error: Permission denied. Ensure the app has the required Graph API permissions (User.ReadWrite.All).">>

GenericErrorText(error_msg) == <<"Error: ">> \o error_msg

\* The except block of call_tool: [exc, text]; exc is an exception raised inside
\* the block itself, which leaves call_tool.
call_tool_except(e, arguments) ==
    LET error_msg == e.msg
        text(t) == [exc |-> NoExc, text |-> t]
    IN  IF Contains(error_msg, "Request_ResourceNotFound")
        THEN IF GetExc(arguments) # NoExc
             THEN [exc |-> GetExc(arguments), text |-> <<>>]
             ELSE text(NotFoundText(Str(Get(arguments, "userId", JStr("unknown")))))
        ELSE IF Contains(error_msg, "Request_BadRequest")
        THEN text(BadRequestText(error_msg))
        ELSE IF \/ Contains(error_msg, "Authorization_RequestDenied")
                \/ Contains(error_msg, "Forbidden")
        THEN text(PermissionDeniedText)
        ELSE text(GenericErrorText(error_msg))

UnknownToolText(name) == <<"Unknown tool: ", name>>

\* Mutant: a call_tool that reads its fields with arguments.get, and so calls
\* the directory whether or not they are there.
call_tool_begin_unchecked(name, arguments) ==
    IF name.a # "str" \/ Str(name) \notin ToolNames
    THEN [exc |-> NoExc, op |-> "", text |-> UnknownToolText(Str(name))]
    ELSE IF GetExc(arguments) # NoExc
    THEN [exc |-> call_tool_except(GetExc(arguments), arguments).exc, op |-> "",
          text |-> call_tool_except(GetExc(arguments), arguments).text]
    ELSE [exc |-> NoExc, op |-> DirectoryOp(Str(name)), text |-> <<>>]

\* call_tool up to its first await: [exc, op, text].  op is the directory
\* operation awaited, "" when call_tool returned (text) or raised (exc).
call_tool_begin(name, arguments) ==
    LET n == Str(name)
        e == CASE n \in {"create_user", "read_user", "delete_user"} ->
                      FirstSubscriptExc(arguments, SubscriptedKeys(n))
               [] n = "update_user" ->
                      IF InExc(arguments) # NoExc THEN InExc(arguments)
                      ELSE FirstSubscriptExc(arguments, SubscriptedKeys(n))
               [] n = "list_users" -> GetExc(arguments)
               [] OTHER -> NoExc
    IN  IF name.a # "str" \/ n \notin ToolNames
        THEN [exc |-> NoExc, op |-> "", text |-> UnknownToolText(n)]
        ELSE IF e = NoExc
        THEN [exc |-> NoExc, op |-> DirectoryOp(n), text |-> <<>>]
        ELSE [exc |-> call_tool_except(e, arguments).exc, op |-> "",
              text |-> call_tool_except(e, arguments).text]

\* The user the directory returns when a call succeeds.
DirUser == [id |-> "11111111-aaaa", user_principal_name |-> "new@contoso.com",
            display_name |-> "New User"]

SuccessText(n, arguments, found) ==
    CASE n = "create_user" ->
             <<"User created successfully: ", DirUser.id, "\n", DirUser.id,
               DirUser.user_principal_name, DirUser.display_name>>
      [] n = "read_user" ->
             <<DirUser.id, DirUser.user_principal_name, DirUser.display_name>>
      [] n = "update_user" ->
             <<"User ", Str(Subscript(arguments, "userId")), " updated successfully">>
      [] n = "delete_user" ->
             <<"User ", Str(Subscript(arguments, "userId")), " deleted successfully">>
      [] OTHER -> <<"users", "count", IF found THEN "1" ELSE "0">>

\* The ways a directory call ends: it returns a value, returns None, or raises.
Returned == [kind |-> "ok", msg |-> <<>>]

ReturnedNone == [kind |-> "none", msg |-> <<>>]

Raised(msg) == [kind |-> "raise", msg |-> msg]

NoOutcome == [kind |-> "", msg |-> <<>>]

\* call_tool from the directory call's end to its return: [exc, text].
call_tool_resume(name, arguments, outcome) ==
    LET n == Str(name)
    IN  IF outcome.kind = "raise"
        THEN call_tool_except(Exc("ODataError", outcome.msg), arguments)
        ELSE IF outcome.kind = "none" /\ n \in {"create_user", "read_user"}
        THEN call_tool_except(AttributeError(None, "id"), arguments)
        ELSE [exc |-> NoExc, text |-> SuccessText(n, arguments, outcome.kind = "ok")]

-----------------------------------------------------------------------------
(* JSON-RPC responses and ASGI events *)

MethodNotFoundCode == -32601

InternalErrorCode == -32603

Response(id, result, error) ==
    [jsonrpc |-> JStr("2.0"), id |-> id, result |-> result, error |-> error]

NoResponse == [jsonrpc |-> MissingV, id |-> MissingV, result |-> MissingV, error |-> MissingV]

InitializeResult ==
    JObj([protocolVersion |-> "2025-06-18",
          capabilities |-> [tools |-> {}],
          serverInfo |-> [name |-> "microsoft-graph-mcp", version |-> "1.0.0"]])

ToolsListResult ==
    JObj([tools |-> [i \in 1..Len(list_tools) |->
                        [name |-> list_tools[i].name,
                         description |-> list_tools[i].description,
                         inputSchema |-> list_tools[i].inputSchema]]])

CallResult(text) == JObj([content |-> << [type |-> "text", text |-> text] >>])

ErrorObject(code, message) == JObj([code |-> code, message |-> message])

MethodNotFound(method) ==
    ErrorObject(MethodNotFoundCode, <<"Method not found: ", Str(method)>>)

Header(name, value) == [name |-> name, value |-> value]

ResponseStart(status, headers) ==
    [type |-> "http.response.start", status |-> status, headers |-> headers,
     body |-> <<>>, more_body |-> FALSE]

ResponseBody(body, more_body) ==
    [type |-> "http.response.body", status |-> 0, headers |-> <<>>,
     body |-> body, more_body |-> more_body]

\* The two sends of a plain-text answer (404, 405).
PlainEvents(status, text) ==
    << ResponseStart(status, <<Header("content-type", <<"text/plain">>)>>),
       ResponseBody(<<text>>, FALSE) >>

\* The two sends that open an SSE stream.
SseEvents(session_id) ==
    << ResponseStart(200, << Header("content-type", <<"text/event-stream">>),
                             Header("cache-control", <<"no-cache">>),
                             Header("connection", <<"keep-alive">>) >>),
       ResponseBody(<<"event: endpoint\ndata: /mcp?session_id=", Str(session_id), "\n\n">>,
                    TRUE) >>

\* The two sends of the HTTP 200 answer.
SuccessEvents(response) ==
    LET response_body == json_dumps(response)
    IN  << ResponseStart(200, << Header("content-type", <<"application/json">>),
                                 Header("content-length", DecStr(Len(response_body))) >>),
           ResponseBody(response_body, FALSE) >>

\* The except block of the POST handler up to its first send: [exc, events];
\* exc is an exception raised while error_response is built.
error_handler(request_data, e) ==
    LET id == IF request_data.a = "unbound" THEN None ELSE Get(request_data, "id", None)
        error_response == Response(id, MissingV, ErrorObject(InternalErrorCode, e.msg))
        error_body == json_dumps(error_response)
    IN  IF request_data.a # "unbound" /\ GetExc(request_data) # NoExc
        THEN [exc |-> GetExc(request_data), events |-> <<>>]
        ELSE [exc |-> NoExc,
              events |-> << ResponseStart(500, <<Header("content-type", <<"application/json">>)>>),
                            ResponseBody(error_body, FALSE) >>]

-----------------------------------------------------------------------------
(* The POST handler between the decoded body and its next await *)

\* response = {..., "id": request_data["id"], "result": result}: [exc, response].
result_response(request_data, result) ==
    IF SubscriptExc(request_data, "id") # NoExc
    THEN [exc |-> SubscriptExc(request_data, "id"), response |-> NoResponse]
    ELSE [exc |-> NoExc, response |-> Response(Subscript(request_data, "id"), result, MissingV)]

\* From the decoded request to the response, to the directory call or to an
\* exception: [kind, exc, response, tool_name, arguments, tool], kind one of
\* "raise", "respond", "await"; tool is where call_tool stands and its text.
handle_request(request_data) ==
    LET method == Get(request_data, "method", None)
        params == Subscript(request_data, "params")
        tool_name == Subscript(params, "name")
        arguments == Get(params, "arguments", JObj(NoArgs))
        begun == call_tool_begin(tool_name, arguments)
        out(kind, e, r, called, text) ==
            [kind |-> kind, exc |-> e, response |-> r,
             tool_name |-> IF called THEN tool_name ELSE None,
             arguments |-> IF called THEN arguments ELSE None,
             tool |-> [state |-> IF ~called THEN ""
                                 ELSE IF kind = "await" THEN "awaiting"
                                 ELSE IF begun.exc # NoExc THEN "raised"
                                 ELSE "returned",
                       text |-> text]]
        raise(e) == out("raise", e, NoResponse, FALSE, <<>>)
        answer(rr, called, text) ==
            IF rr.exc # NoExc THEN out("raise", rr.exc, NoResponse, called, text)
            ELSE out("respond", NoExc, rr.response, called, text)
    IN  IF GetExc(request_data) # NoExc THEN raise(GetExc(request_data))
        ELSE IF method = JStr("initialize")
        THEN answer(result_response(request_data, InitializeResult), FALSE, <<>>)
        ELSE IF method = JStr("tools/list")
        THEN answer(result_response(request_data, ToolsListResult), FALSE, <<>>)
        ELSE IF method = JStr("tools/call")
        THEN IF SubscriptExc(request_data, "params") # NoExc
             THEN raise(SubscriptExc(request_data, "params"))
             ELSE IF SubscriptExc(params, "name") # NoExc
             THEN raise(SubscriptExc(params, "name"))
             ELSE IF begun.exc # NoExc
             THEN out("raise", begun.exc, NoResponse, TRUE, <<>>)
             ELSE IF begun.op # ""
             THEN out("await", NoExc, NoResponse, TRUE, <<>>)
             ELSE answer(result_response(request_data, CallResult(begun.text)), TRUE, begun.text)
        ELSE out("respond", NoExc,
                 Response(Get(request_data, "id", None), MissingV, MethodNotFound(method)),
                 FALSE, <<>>)

-----------------------------------------------------------------------------
(* One invocation of mcp_asgi_app: its locals, what the environment still  *)
(* holds for it, and the history of what it did                            *)

NoScope == [type |-> "", method |-> "", path |-> "", query_string |-> <<>>]

NoTool == [state |-> "", text |-> <<>>]

IdleConn ==
    [pc |-> "idle", scope |-> NoScope, session_id |-> None, body_parts |-> <<>>,
     request_data |-> Unbound, tool_name |-> None, arguments |-> None,
     response |-> NoResponse, outbox |-> <<>>, onfail |-> "", after |-> "",
     \* the environment: the body the client sends, what of it is not yet
     \* delivered, whether the client is gone
     body |-> <<>>, pending |-> <<>>, disconnected |-> FALSE,
     \* history: the events handed to send (ok: send returned), the directory
     \* operations issued and how the last ended, where call_tool ended, the
     \* exception an except block caught, the one that left the handler, how a
     \* POST's session_id stood when it arrived, whether the SSE loop slept
     sent |-> <<>>, calls |-> <<>>, outcome |-> NoOutcome, tool |-> NoTool,
     caught |-> NoExc, escaped |-> NoExc, sid_class |-> "", slept |-> FALSE]

Tokens == {"t1", "t2"}

QueryParam(k, v) == [k |-> k, v |-> v]

\* parse_qs(query_string).get("session_id", [None])[0], None for an empty query.
session_id_of(query_string) ==
    LET found == {i \in 1..Len(query_string) :
                     query_string[i].k = "session_id" /\ query_string[i].v # ""}
    IN  IF Len(query_string) = 0 \/ found = {} THEN None
        ELSE JStr(query_string[CHOOSE i \in found : \A j \in found : i <= j].v)

SendError == Exc("OSError", <<"send failed">>)

ReceiveError == Exc("OSError", <<"receive failed">>)

\* The except block of the POST handler, entered with exception e.
except_block(l, e) ==
    LET h == error_handler(l.request_data, e)
    IN  IF h.exc # NoExc
        THEN [l EXCEPT !.pc = "raised", !.caught = e, !.escaped = h.exc, !.outbox = <<>>]
        ELSE [l EXCEPT !.pc = "send", !.caught = e, !.outbox = h.events,
                       !.onfail = "swallow", !.after = "done"]

\* Mutant: a handler that answers only a POST that names a session.
respond_session(l, response) ==
    IF l.session_id = None
    THEN except_block(l, Exc("ValueError", <<"unknown session">>))
    ELSE [l EXCEPT !.pc = "send", !.response = response, !.outbox = SuccessEvents(response),
                   !.onfail = "except", !.after = "done"]

\* The response is built: the HTTP 200 answer is next.
respond(l, response) ==
    [l EXCEPT !.pc = "send", !.response = response, !.outbox = SuccessEvents(response),
              !.onfail = "except", !.after = "done"]

\* The try body from the complete body to the next await.  body_parts is
\* read for the last time by the join, and is dropped there.
try_body(l) ==
    LET full_body == Join(l.body_parts)
        loaded == json_loads(full_body)
        h == handle_request(loaded.val)
        l0 == [l EXCEPT !.body_parts = <<>>]
        l1 == [l0 EXCEPT !.request_data = loaded.val, !.tool_name = h.tool_name,
                         !.arguments = h.arguments, !.tool = h.tool]
    IN  IF loaded.exc # NoExc THEN except_block(l0, loaded.exc)
        ELSE IF h.kind = "raise" THEN except_block(l1, h.exc)
        ELSE IF h.kind = "await" THEN [l1 EXCEPT !.pc = "call"]
        ELSE respond(l1, h.response)

\* call_tool resumes when the directory call ends, and the try body goes on.
after_call(l, outcome) ==
    LET r == call_tool_resume(l.tool_name, l.arguments, outcome)
        rr == result_response(l.request_data, CallResult(r.text))
        l1 == [l EXCEPT !.calls = Append(@, DirectoryOp(Str(l.tool_name))),
                        !.outcome = outcome]
        l2 == [l1 EXCEPT !.tool = [state |-> "returned", text |-> r.text]]
    IN  IF r.exc # NoExc
        THEN except_block([l1 EXCEPT !.tool = [state |-> "raised", text |-> <<>>]], r.exc)
        ELSE IF rr.exc # NoExc THEN except_block(l2, rr.exc)
        ELSE respond(l2, rr.response)

\* await send(event) ends: it returned (ok) or raised.
after_send(l, ok) ==
    LET l1 == [l EXCEPT !.sent = Append(@, [event |-> Head(l.outbox), ok |-> ok])]
    IN  IF ok
        THEN IF Len(l.outbox) = 1 THEN [l1 EXCEPT !.outbox = <<>>, !.pc = l.after]
             ELSE [l1 EXCEPT !.outbox = Tail(@)]
        ELSE IF l.onfail = "except" THEN except_block(l1, SendError)
        ELSE IF l.onfail = "swallow" THEN [l1 EXCEPT !.pc = "done", !.outbox = <<>>]
        ELSE [l1 EXCEPT !.pc = "raised", !.escaped = SendError, !.outbox = <<>>]

\* mcp_asgi_app from its call to its first await.
start(scope, token, body) ==
    LET l == [IdleConn EXCEPT !.scope = scope]
        plain(status, text) ==
            [l EXCEPT !.pc = "send", !.outbox = PlainEvents(status, text),
                      !.onfail = "raise", !.after = "done"]
    IN  IF scope.type # "http" THEN [l EXCEPT !.pc = "done"]
        ELSE IF scope.path # "/mcp" THEN plain(404, "Not Found")
        ELSE IF scope.method = "GET"
        THEN [l EXCEPT !.pc = "send", !.session_id = JStr(token),
                       !.outbox = SseEvents(JStr(token)), !.onfail = "raise",
                       !.after = "recv"]
        ELSE IF scope.method = "POST"
        THEN [l EXCEPT !.pc = "recv", !.session_id = session_id_of(scope.query_string),
                       !.body = body, !.pending = body]
        ELSE plain(405, "Method Not Allowed")

\* What receive() gives a handler.
HttpRequest(body, more_body) == [type |-> "http.request", body |-> body, more_body |-> more_body]

HttpDisconnect == [type |-> "http.disconnect", body |-> <<>>, more_body |-> FALSE]

ReceiveRaises == [type |-> "raise", body |-> <<>>, more_body |-> FALSE]

\* Mutant: an SSE loop that answers each inbound message with a keep-alive frame.
sse_receive_keepalive(l, m) ==
    IF m.type = "raise" THEN [l EXCEPT !.pc = "done", !.caught = ReceiveError]
    ELSE IF m.type = "http.disconnect" THEN [l EXCEPT !.pc = "done", !.disconnected = TRUE]
    ELSE [l EXCEPT !.pc = "send", !.outbox = <<ResponseBody(<<": keep-alive\n\n">>, TRUE)>>,
                   !.onfail = "raise", !.after = "sleep"]

\* The SSE loop: await receive() ends with message m (or raises).
sse_receive(l, m) ==
    IF m.type = "raise" THEN [l EXCEPT !.pc = "done", !.caught = ReceiveError]
    ELSE IF m.type = "http.disconnect" THEN [l EXCEPT !.pc = "done", !.disconnected = TRUE]
    ELSE [l EXCEPT !.pc = "sleep"]

\* The body loop of POST: await receive() ends with message m (or raises).
post_receive(l, m) ==
    IF m.type = "raise" THEN except_block([l EXCEPT !.body_parts = <<>>], ReceiveError)
    ELSE IF m.type = "http.disconnect" THEN [l EXCEPT !.disconnected = TRUE]
    ELSE LET l1 == [l EXCEPT !.body_parts = Append(@, m.body),
                             !.pending = SubSeq(@, Len(m.body) + 1, Len(@))]
         IN  IF m.more_body THEN l1 ELSE try_body(l1)

after_receive(l, m) ==
    IF l.scope.method = "GET" THEN sse_receive(l, m) ELSE post_receive(l, m)

-----------------------------------------------------------------------------
(* The clients: the requests they make and what the environment may do *)

Scope(type, method, path, query_string) ==
    [type |-> type, method |-> method, path |-> path, query_string |-> query_string]

Request(id, method, params) ==
    <<LBrace>> \o Member("id", id) \o Member("method", method)
       \o Member("params", params) \o <<RBrace>>

Params(name, arguments) == JObj([name |-> name, arguments |-> arguments])

CreateArgs ==
    [NoArgs EXCEPT !["userPrincipalName"] = JStr("a@contoso.com"),
                   !["displayName"] = JStr("A"), !["mailNickname"] = JStr("a"),
                   !["password"] = JStr("pw")]

ArgMaps ==
    { NoArgs,
      [NoArgs EXCEPT !["userId"] = JStr("u1")],
      [NoArgs EXCEPT !["userId"] = JStr("u2"), !["displayName"] = JStr("B"),
                     !["jobTitle"] = JStr("Dev")],
      CreateArgs,
      [CreateArgs EXCEPT !["password"] = MissingV],
      [CreateArgs EXCEPT !["userId"] = JStr("u1")],
      [NoArgs EXCEPT !["top"] = JStr("5")] }

ArgumentValues == {MissingV, None, JList} \cup {JObj(m) : m \in ArgMaps}

NameValues == {MissingV, JStr("bogus")} \cup {JStr(n) : n \in ToolNames}

Ids == {MissingV, None, JStr("1"), JStr("2")}

CallParams ==
    {MissingV, None, JList} \cup {Params(n, a) : n \in NameValues, a \in ArgumentValues}

OtherParams == {MissingV, JList, Params(MissingV, MissingV)}

Envelopes ==
    {Request(id, JStr("tools/call"), p) : id \in Ids, p \in CallParams}
    \cup {Request(id, m, p) :
             id \in Ids,
             m \in {MissingV, JStr("initialize"), JStr("tools/list"), JStr("ping")},
             p \in OtherParams}

\* Valid JSON that is no object, and text that is no JSON.
OtherBodies ==
    { <<NullTok>>, <<LBracket, RBracket>>, <<>>, <<LBrace>>, <<BadByte>>,
      <<LBrace, Tok("id", JStr("1")), Tok("method", JStr("initialize"))>> }

DirectoryErrors ==
    { <<"Code: ", "Request_ResourceNotFound">>,
      <<"Code: ", "Request_BadRequest">>,
      <<"Code: ", "Authorization_RequestDenied">>,
      <<"403 ", "Forbidden">>,
      <<"Request_BadRequest", " after ", "Request_ResourceNotFound">>,
      <<"Connection reset by peer">> }

Outcomes == {Returned, ReturnedNone} \cup {Raised(m) : m \in DirectoryErrors}

\* The connections the server may hold at once.
Conns == {1, 2, 3}

\* No client: the connection is never made.
NoClient == [scopes |-> {}, bodies |-> {}, chunks |-> 0, faults |-> FALSE, outcomes |-> {}]

\* A client that may make any request, against an environment that may fail.
AnyClient ==
    [scopes |-> { Scope("websocket", "GET", "/mcp", <<>>),
                  Scope("http", "GET", "/mcp", <<>>),
                  Scope("http", "GET", "/other", <<>>),
                  Scope("http", "PUT", "/mcp", <<>>),
                  Scope("http", "POST", "/other", <<>>),
                  Scope("http", "POST", "/mcp", <<>>),
                  Scope("http", "POST", "/mcp",
                        <<QueryParam("foo", "bar"), QueryParam("session_id", "t1")>>) },
     bodies |-> Envelopes \cup OtherBodies,
     chunks |-> MaxChunks,
     faults |-> TRUE,
     outcomes |-> Outcomes]

\* A client that opens SSE streams.
SseClient ==
    [scopes |-> {Scope("http", "GET", "/mcp", <<>>)},
     bodies |-> {<<>>}, chunks |-> 1, faults |-> FALSE, outcomes |-> {Returned}]

\* A client that posts, with or without a session_id.
PostClient ==
    [scopes |-> { Scope("http", "POST", "/mcp", <<>>),
                  Scope("http", "POST", "/mcp", <<QueryParam("session_id", "t1")>>),
                  Scope("http", "POST", "/mcp", <<QueryParam("session_id", "t2")>>) },
     bodies |-> { Request(JStr("1"), JStr("initialize"), MissingV),
                  Request(JStr("2"), JStr("tools/list"), MissingV),
                  Request(JStr("1"), JStr("tools/call"),
                          Params(JStr("read_user"),
                                 JObj([NoArgs EXCEPT !["userId"] = JStr("u1")]))),
                  Request(MissingV, JStr("ping"), MissingV),
                  <<LBrace>> },
     chunks |-> 1, faults |-> FALSE,
     outcomes |-> {Returned, Raised(<<"Code: ", "Request_ResourceNotFound">>)}]

-----------------------------------------------------------------------------
(* The steps *)

\* The client behind a connection, by the name the state holds.
Profile(name) ==
    CASE name = "any" -> AnyClient
      [] name = "sse" -> SseClient
      [] name = "post" -> PostClient
      [] OTHER -> NoClient

IsSse(l) == l.scope.type = "http" /\ l.scope.path = "/mcp" /\ l.scope.method = "GET"

IsPost(l) == l.scope.type = "http" /\ l.scope.path = "/mcp" /\ l.scope.method = "POST"

\* How a POST's session_id stands to the SSE streams when the POST arrives.
SidClass(session_id) ==
    LET streams == {g \in Conns :
                       /\ IsSse(conn[g])
                       /\ conn[g].session_id = session_id
                       /\ Len(conn[g].sent) = 2
                       /\ conn[g].sent[2].ok}
    IN  IF session_id = None THEN "absent"
        ELSE IF \E g \in streams : conn[g].pc \in {"recv", "sleep"} THEN "open"
        ELSE IF streams # {} THEN "closed"
        ELSE "never"

\* What receive() may give handler c next.
Messages(c) ==
    LET l == conn[c]
        raises == IF Profile(client[c]).faults THEN {ReceiveRaises} ELSE {}
    IN  IF IsSse(l) THEN {HttpRequest(<<>>, FALSE), HttpDisconnect} \cup raises
        ELSE IF l.disconnected THEN {HttpDisconnect}
        ELSE {HttpRequest(l.pending, FALSE), HttpDisconnect} \cup raises
             \cup (IF Len(l.body_parts) + 1 < Profile(client[c]).chunks
                   THEN {HttpRequest(SubSeq(l.pending, 1, k), TRUE) : k \in 0..Len(l.pending)}
                   ELSE {})

\* The server calls mcp_asgi_app(scope, receive, send) for a new request.
Connect(c) ==
    /\ conn[c].pc = "idle"
    /\ \E scope \in Profile(client[c]).scopes :
         \E token \in (IF IsSse([scope |-> scope]) THEN Tokens ELSE {"t1"}) :
           \E body \in (IF IsPost([scope |-> scope]) THEN Profile(client[c]).bodies ELSE {<<>>}) :
             conn' = [conn EXCEPT ![c] =
                         [start(scope, token, body) EXCEPT
                             !.sid_class = IF IsPost([scope |-> scope])
                                           THEN SidClass(session_id_of(scope.query_string))
                                           ELSE ""]]
    /\ UNCHANGED client

\* An await receive() of handler c ends.
Receive(c) ==
    /\ conn[c].pc = "recv"
    /\ \E m \in Messages(c) : conn' = [conn EXCEPT ![c] = after_receive(conn[c], m)]
    /\ UNCHANGED client

\* The await asyncio.sleep(1) of the SSE loop ends.
Sleep(c) ==
    /\ conn[c].pc = "sleep"
    /\ conn' = [conn EXCEPT ![c].pc = "recv", ![c].slept = TRUE]
    /\ UNCHANGED client

\* The directory call awaited by call_tool ends.
DirectoryCall(c) ==
    /\ conn[c].pc = "call"
    /\ \E outcome \in Profile(client[c]).outcomes :
         conn' = [conn EXCEPT ![c] = after_call(conn[c], outcome)]
    /\ UNCHANGED client

\* An await send(event) of handler c ends.
Send(c) ==
    /\ conn[c].pc = "send"
    /\ \E ok \in (IF Profile(client[c]).faults THEN BOOLEAN ELSE {TRUE}) :
         conn' = [conn EXCEPT ![c] = after_send(conn[c], ok)]
    /\ UNCHANGED client

Init ==
    /\ conn = [c \in Conns |-> IdleConn]
    /\ client = [c \in Conns |-> IF c = 1 THEN "any" ELSE "none"]

\* One SSE client and two posting clients, side by side.
InitPair ==
    /\ conn = [c \in Conns |-> IdleConn]
    /\ client = [c \in Conns |-> IF c = 1 THEN "sse" ELSE "post"]

Next ==
    \E c \in Conns :
        \/ Connect(c)
        \/ Receive(c)
        \/ Sleep(c)
        \/ DirectoryCall(c)
        \/ Send(c)

Spec == Init /\ [][Next]_vars

SpecPair == InitPair /\ [][Next]_vars

\* The event loop resumes every handler whose await has ended: a message that
\* has arrived is received, a directory call that ended is resumed, a send or
\* a sleep that ended is resumed.  No client is bound to connect.
Fairness ==
    \A c \in Conns :
        /\ WF_vars(Receive(c))
        /\ WF_vars(Sleep(c))
        /\ WF_vars(DirectoryCall(c))
        /\ WF_vars(Send(c))

SpecLive == Init /\ [][Next]_vars /\ Fairness

-----------------------------------------------------------------------------
(* What the claims speak of *)

Ended(l) == l.pc \in {"done", "raised"}

\* The exchange is past the dispatch: a send is pending or the handler ended.
Dispatched(l) == l.pc \in {"send", "done", "raised"}

Decodes(body) == json_loads(body).exc = NoExc

Decoded(body) == json_loads(body).val

\* The body is a JSON-RPC request: an object with an id, a method name and a
\* mapping of params.
WellFormed(body) ==
    /\ Decodes(body)
    /\ IsDict(Decoded(body))
    /\ Decoded(body).o.id # MissingV
    /\ Decoded(body).o.method.a = "str"
    /\ IsDict(Decoded(body).o.params)

IsStart(e) == e.event.type = "http.response.start"

HasHeader(e, name, value) ==
    \E i \in 1..Len(e.event.headers) : e.event.headers[i] = Header(name, value)

\* The body of a response event is one JSON-RPC object with exactly one of
\* result and error.
OneJsonRpcObject(e) ==
    /\ e.event.type = "http.response.body"
    /\ ~e.event.more_body
    /\ Len(e.event.body) >= 2
    /\ Head(e.event.body) = LBrace
    /\ e.event.body[Len(e.event.body)] = RBrace
    /\ Cardinality({i \in 1..Len(e.event.body) : e.event.body[i].k \in {"result", "error"}}) = 1

\* C1: a POST whose body is a well-formed JSON-RPC request gets exactly one
\* HTTP response, whatever the chunking, the directory call and the sends do:
\* no http.response.start is handed to send after one that send accepted, and
\* when every send returned, the events are one start and one final body
\* carrying a single JSON-RPC object with exactly one of result and error.
C1_ExactlyOneResponse ==
    \A c \in Conns :
        LET l == conn[c]
        IN  (IsPost(l) /\ WellFormed(l.body)) =>
               /\ \A i, j \in 1..Len(l.sent) :
                     (i < j /\ IsStart(l.sent[i]) /\ l.sent[i].ok) => ~IsStart(l.sent[j])
               /\ (Ended(l) /\ \A i \in 1..Len(l.sent) : l.sent[i].ok) =>
                     /\ l.pc = "done"
                     /\ Len(l.sent) = 2
                     /\ IsStart(l.sent[1])
                     /\ OneJsonRpcObject(l.sent[2])

\* C2: every POST handler that ended has handed a response to send, and no
\* exception left it, whatever the body was.
C2_EveryPostAnswered ==
    \A c \in Conns :
        LET l == conn[c]
        IN  (IsPost(l) /\ Ended(l)) =>
               /\ l.pc = "done"
               /\ \E i \in 1..Len(l.sent) : IsStart(l.sent[i])

\* C3: when the handler has decoded the POST body as a JSON object, whatever its method and
\* whether or not it has an id or params, the first event handed to send is
\* a start with status 200, content-type application/json and a
\* content-length equal to the length of the body sent after it, and the
\* handler does not end without it.
C3_DecodedGets200 ==
    \A c \in Conns :
        LET l == conn[c]
        IN  (IsPost(l) /\ IsDict(l.request_data)) =>
               /\ Ended(l) => Len(l.sent) >= 1
               /\ Len(l.sent) >= 1 =>
                     /\ IsStart(l.sent[1])
                     /\ l.sent[1].event.status = 200
                     /\ HasHeader(l.sent[1], "content-type", <<"application/json">>)
               /\ (Len(l.sent) >= 2 /\ l.sent[1].ok) =>
                     HasHeader(l.sent[1], "content-length",
                               DecStr(Len(l.sent[2].event.body)))

\* The id the error response is to carry: the parsed id, else null.
ParsedId(l) ==
    IF IsDict(l.request_data) /\ l.request_data.o.id # MissingV
    THEN l.request_data.o.id
    ELSE None

\* C4: when the body is no JSON or an exception is raised in the try body, the
\* handler hands to send a start with status 500 and then the error object
\* {code -32603, message: the exception text} with the parsed id, else null.
C4_FailureGets500 ==
    \A c \in Conns :
        LET l == conn[c]
            failed == l.caught # NoExc \/ l.escaped # NoExc
            body == json_dumps(Response(ParsedId(l), MissingV,
                                        ErrorObject(-32603, l.caught.msg)))
        IN  (IsPost(l) /\ Ended(l) /\ failed) =>
               \E i \in 1..Len(l.sent) :
                  /\ IsStart(l.sent[i])
                  /\ l.sent[i].event.status = 500
                  /\ l.sent[i].ok => (i < Len(l.sent) /\ l.sent[i + 1].event.body = body)

\* The frame an SSE stream opens with.
EndpointFrame(token) ==
    ResponseBody(<<"event: endpoint\ndata: /mcp?session_id=", token, "\n\n">>, TRUE)

\* C5: a GET on /mcp hands to send the start (200, text/event-stream) and then
\* one endpoint frame whose data is /mcp?session_id=<token>, and nothing after
\* it whatever it receives; in its loop and after it both were sent, and once
\* http.disconnect is received the handler has returned.  An exception leaves
\* the handler only when a send raised.
C5_SseOneFrame ==
    \A c \in Conns :
        LET l == conn[c]
        IN  IsSse(l) =>
               /\ Len(l.sent) <= 2
               /\ Len(l.sent) >= 1 =>
                     /\ IsStart(l.sent[1])
                     /\ l.sent[1].event.status = 200
                     /\ HasHeader(l.sent[1], "content-type", <<"text/event-stream">>)
               /\ Len(l.sent) = 2 =>
                     /\ l.sent[1].ok
                     /\ \E token \in Tokens : l.sent[2].event = EndpointFrame(token)
               /\ l.pc \in {"recv", "sleep", "done"} => (Len(l.sent) = 2 /\ l.sent[2].ok)
               /\ l.disconnected => l.pc = "done"
               /\ l.pc = "raised" => (Len(l.sent) >= 1 /\ ~l.sent[Len(l.sent)].ok)

\* C5 witness: an SSE handler that idled in its loop and returned on disconnect.
C5_Witness ==
    \E c \in Conns :
        /\ IsSse(conn[c])
        /\ conn[c].pc = "done"
        /\ conn[c].disconnected
        /\ conn[c].slept
        /\ Len(conn[c].sent) = 2

\* The text classes of a directory failure, by what the diagnostic holds.
IsNotFound(text, arguments) ==
    text = <<"Error: User '", Str(Get(arguments, "userId", JStr("unknown"))),
             "' not found in Azure AD. Please verify the user ID or userPrincipalName.">>

IsBadRequest(text, msg) ==
    text = <<"Error: Invalid request. Please check the parameters: ">> \o msg

IsPermissionDenied(text) ==
    /\ Len(text) = 1
    /\ text[1] = "Error: Permission denied. Ensure the app has the required Graph API permissions (User.ReadWrite.All)."

IsGeneric(text, msg) == text = <<"Error: ">> \o msg

\* C6: a directory call that raised is caught inside call_tool: call_tool
\* returned a text of one of the four classes (not-found only when the
\* diagnostic holds Request_ResourceNotFound, bad-request only when it holds
\* Request_BadRequest, permission-denied only when it holds
\* Authorization_RequestDenied or Forbidden, generic only when it holds none),
\* one call was issued and none repeated, the response is a result with that
\* text and no error, and no event with status 500 is handed to send.
C6_DirectoryFailureIsResult ==
    \A c \in Conns :
        LET l == conn[c]
            msg == l.outcome.msg
            text == l.tool.text
        IN  l.outcome.kind = "raise" =>
               /\ l.tool.state = "returned"
               /\ \/ IsNotFound(text, l.arguments) /\ Contains(msg, "Request_ResourceNotFound")
                  \/ IsBadRequest(text, msg) /\ Contains(msg, "Request_BadRequest")
                  \/ /\ IsPermissionDenied(text)
                     /\ \/ Contains(msg, "Authorization_RequestDenied")
                        \/ Contains(msg, "Forbidden")
                  \/ /\ IsGeneric(text, msg)
                     /\ \A i \in 1..Len(msg) :
                           msg[i] \notin {"Request_ResourceNotFound", "Request_BadRequest",
                                          "Authorization_RequestDenied", "Forbidden"}
               /\ Len(l.calls) = 1
               /\ l.response.error = MissingV
               /\ l.response.result = JObj([content |-> << [type |-> "text", text |-> text] >>])
               /\ \A i \in 1..Len(l.sent) : l.sent[i].event.status # 500

\* The fields a tool cannot do without.
Mandatory(name) ==
    CASE name = "create_user" ->
             <<"userPrincipalName", "displayName", "mailNickname", "password">>
      [] name \in {"read_user", "update_user", "delete_user"} -> <<"userId">>
      [] OTHER -> <<>>

FiveTools == {"create_user", "read_user", "update_user", "delete_user", "list_users"}

\* The tool is one of the five and the arguments hold its mandatory fields.
Complete(name, arguments) ==
    /\ name.a = "str"
    /\ name.s \in FiveTools
    /\ IsDict(arguments)
    /\ \A i \in 1..Len(Mandatory(name.s)) : arguments.o[Mandatory(name.s)[i]] # MissingV

\* C7 as claimed: every call_tool invocation with a mapping of arguments has
\* issued exactly one directory call when it ends.
C7_ExactlyOneCall ==
    \A c \in Conns :
        LET l == conn[c]
        IN  (l.tool.state \in {"returned", "raised"} /\ IsDict(l.arguments)) =>
               Len(l.calls) = 1

\* C7 as amended: a handler issues at most one directory call; call_tool
\* awaits the directory only for one of the five tools with its mandatory
\* fields present, has then issued no call yet, and when it ends has issued
\* exactly one call in that case and none otherwise; no call is issued
\* outside call_tool.
C7_AtMostOneCall ==
    \A c \in Conns :
        LET l == conn[c]
        IN  /\ Len(l.calls) <= 1
            /\ l.tool.state = "" => (l.calls = <<>> /\ l.pc # "call")
            /\ l.pc = "call" <=> l.tool.state = "awaiting"
            /\ l.tool.state = "awaiting" =>
                  (l.calls = <<>> /\ Complete(l.tool_name, l.arguments))
            /\ l.tool.state \in {"returned", "raised"} =>
                  Len(l.calls) = (IF Complete(l.tool_name, l.arguments) THEN 1 ELSE 0)

\* C7 witness: both cases have happened to a handler that ended: one call for
\* a tool with its fields, none for an unknown tool or a missing field.
C7_Witness ==
    \E c \in Conns :
        /\ conn[c].pc = "done"
        /\ conn[c].tool.state = "returned"
        /\ conn[c].tool_name = JStr("update_user")
        /\ Complete(conn[c].tool_name, conn[c].arguments)
        /\ conn[c].calls = <<"users.by_user_id.patch">>

\* C8: two POSTs with the same body whose directory calls ended the same way
\* end the same way, with the same events sent and the same response, however
\* their session_id stood to the SSE streams when they arrived.
C8_SessionNeverChecked ==
    \A c, d \in Conns :
        LET l == conn[c]
            r == conn[d]
        IN  (/\ IsPost(l) /\ IsPost(r)
             /\ Ended(l) /\ Ended(r)
             /\ l.body = r.body
             /\ l.outcome = r.outcome) =>
               /\ l.pc = r.pc
               /\ l.sent = r.sent
               /\ l.response = r.response

\* C8 witness: two answered POSTs of one tools/call body, one bearing the
\* token of an open SSE stream and one a token no stream was given.
C8_Witness ==
    \E c, d \in Conns :
        /\ IsPost(conn[c]) /\ IsPost(conn[d])
        /\ conn[c].pc = "done" /\ conn[d].pc = "done"
        /\ conn[c].body = conn[d].body
        /\ conn[c].outcome = conn[d].outcome
        /\ conn[c].outcome.kind = "raise"
        /\ conn[c].sid_class = "open"
        /\ conn[d].sid_class = "never"

\* C9: a request whose method is initialize gets the fixed result, whatever
\* its params and whether or not it has an id.
C9_InitializeSucceeds ==
    \A c \in Conns :
        LET l == conn[c]
        IN  (/\ IsPost(l)
             /\ IsDict(l.request_data)
             /\ l.request_data.o.method = JStr("initialize")
             /\ Dispatched(l)) =>
               /\ l.response.error = MissingV
               /\ l.response.result =
                     JObj([protocolVersion |-> "2025-06-18",
                           capabilities |-> [tools |-> {}],
                           serverInfo |-> [name |-> "microsoft-graph-mcp",
                                           version |-> "1.0.0"]])
               /\ Len(l.sent) >= 1 => l.sent[1].event.status = 200

\* inputSchema.required, empty when the schema has none.
RequiredOf(schema) == IF "required" \in DOMAIN schema THEN schema.required ELSE <<>>

\* C10: a tools/list request with an id gets a result whose tools are the five
\* fixed tools, each with a name, a description and the mandatory fields of
\* that tool as inputSchema.required; the body sent with status 200 is that
\* response, and no directory call is made.
C10_ToolsList ==
    \A c \in Conns :
        LET l == conn[c]
            tools == l.response.result.o.tools
        IN  (/\ IsPost(l)
             /\ IsDict(l.request_data)
             /\ l.request_data.o.method = JStr("tools/list")
             /\ l.request_data.o.id # MissingV) =>
               /\ l.calls = <<>>
               /\ l.pc # "call"
               /\ Dispatched(l) =>
                     /\ l.response.id = l.request_data.o.id
                     /\ l.response.error = MissingV
                     /\ IsDict(l.response.result)
                     /\ Len(tools) = 5
                     /\ {tools[i].name : i \in 1..Len(tools)} = FiveTools
                     /\ \A i \in 1..Len(tools) :
                           /\ tools[i].name # ""
                           /\ tools[i].description # ""
                           /\ tools[i].inputSchema.type = "object"
                           /\ RequiredOf(tools[i].inputSchema) = Mandatory(tools[i].name)
                     /\ (Len(l.sent) >= 2 /\ l.sent[1].ok) =>
                           /\ l.sent[1].event.status = 200
                           /\ l.sent[2].event.body = json_dumps(l.response)

\* C10 witness: a tools/list request answered in full.
C10_Witness ==
    \E c \in Conns :
        /\ IsPost(conn[c])
        /\ IsDict(conn[c].request_data)
        /\ conn[c].request_data.o.method = JStr("tools/list")
        /\ conn[c].request_data.o.id = JStr("2")
        /\ conn[c].pc = "done"
        /\ Len(conn[c].sent) = 2
        /\ conn[c].sent[2].ok

\* C11: every POST handler eventually returns or raises, whatever messages
\* it is given: chunks followed by a final chunk, or an http.disconnect before
\* the final chunk.
C11_PostReturns ==
    \A c \in Conns : (IsPost(conn[c]) /\ ~Ended(conn[c])) ~> Ended(conn[c])

====
